---- MODULE Spec2Model ----
(***************************************************************************)
(* A model of psutil/_common.py: the environment-block parser, the         *)
(* memoize decorator, the connection-kind table, the socket-code           *)
(* normalizers and usage_percent; and of the error taxonomy the tests of    *)
(* tests/test_misc.py exercise.                                            *)
(***************************************************************************)
EXTENDS Integers, Sequences, FiniteSets, TLC

VARIABLES
    WINDOWS,    \* _common.py:36, the platform flag read by parse_environ_block
    data,       \* parse_environ_block: the block being parsed
    pos,        \* parse_environ_block: the scan position (0-based)
    ret,        \* parse_environ_block: the dictionary built so far
    env_pc,     \* parse_environ_block: "off", "loop" (in the while), "done"
    cache,      \* memoize: the cache dictionary (line 135)
    lock,       \* memoize: the RLock (line 134): its owner and its depth
    calls,      \* the invocations of the wrapped function (test_misc.py:175)
    epoch,      \* how many times cache.clear() has run
    looked,     \* the keys looked up since the last cache.clear()
    pc,         \* per thread: where it is in wrapper / cache_clear
    args,       \* per thread: wrapper's positional arguments
    kwargs,     \* per thread: wrapper's keyword arguments, in passing order
    key,        \* per thread: wrapper's key (line 118)
    wret,       \* per thread: wrapper's return value
    seen,       \* per thread: what its current or last operation observed
    nops,       \* how many operations have been started
    uncalled,   \* the keys no call has begun with since a cache_clear() returned
    raises,     \* the invocations of the wrapped function that raised
    sys_version_info,   \* the running interpreter's (major, minor), line 27
    AF_INET6,   \* line 45: the family's name, or NoFamily when socket lacks it
    AF_UNIX,    \* line 46: the family's name, or NoFamily when socket lacks it
    conn_tmap,  \* lines 257-277: kind -> (families, types)
    sock_pc,    \* how far the module's initialisation of conn_tmap has run
    conn_out,   \* the outcome of the latest resolution of a kind
    enum_out,   \* the outcome of the latest sockfam_to_enum / socktype_to_enum
    used,       \* usage_percent: argument
    total,      \* usage_percent: argument
    round_,     \* usage_percent: argument _round, <<>> for None, else <<digits>>
    pret,       \* usage_percent: the local ret
    pct_pc,     \* usage_percent: "off", "try", "computed", "done"
    exc,        \* a taxonomy error: its kind, pid, name, ppid and msg
    exc_repr,   \* the rendering of exc, a sequence of pieces of text
    err_pc,     \* "off", "new", "constructed", "rendered"
    handles,    \* the process handles constructed: their _ident, by object
    pyset,      \* a Python set of handles (the objects in it)
    added,      \* the handles that have been added to pyset
    cmp,        \* the latest ==: its operands and what it gave
    proc_pc,    \* "off" or "on"
    strict_fn,  \* which of isfile_strict / path_exists_strict is running
    os_stat,    \* what os.stat(path) does: the stat result or the exception
    strict_out, \* what the function returned or raised
    strict_pc   \* "off", "new", "try", "except", "else", "done"

envVars == <<WINDOWS, data, pos, ret, env_pc>>

memoVars ==
    <<cache, lock, calls, epoch, looked, pc, args, kwargs, key, wret, seen, nops,
      uncalled, raises>>

sockVars ==
    <<sys_version_info, AF_INET6, AF_UNIX, conn_tmap, sock_pc, conn_out, enum_out>>

pctVars == <<used, total, round_, pret, pct_pc>>

errVars == <<exc, exc_repr, err_pc>>

procVars == <<handles, pyset, added, cmp, proc_pc>>

strictVars == <<strict_fn, os_stat, strict_out, strict_pc>>

vars == <<envVars, memoVars, sockVars, pctVars, errVars, procVars, strictVars>>

\* Python's None where a key, respectively a value, is expected.
NoKey == <<>>

NoValue == [nth |-> 0]

(***************************************************************************)
(* Bounds.                                                                 *)
(***************************************************************************)
\* Longest environment block that is enumerated.
MaxLen == 7

\* How many operations (calls of the wrapper, calls of cache_clear) the
\* threads start in all.
MaxOps == 3

\* How many threads use the memoized function.
MaxThreads == 2

\* Largest numeric socket code handed to the normalizers.
MaxCode == 11

\* Largest value of usage_percent's used and total.
MaxAmount == 3

\* Largest digit count handed to usage_percent.
MaxDigits == 1

\* Largest pid and ppid given to a taxonomy error.
MaxPid == 11

\* How many process handles are constructed.
MaxHandles == 2

\* Largest pid of a process handle.
MaxProcPid == 2

\* Latest creation time of a process, in clock ticks.
MaxCreateTime == 2

\* How many values a hash takes.
HashValues == 3

\* Largest errno of an OSError raised by os.stat.
MaxErrno == 22

\* Largest permission bits of a stat result.
MaxPerm == 3

(***************************************************************************)
(* Python built-ins used by the code.                                      *)
(***************************************************************************)
Min(S) == CHOOSE x \in S : \A y \in S : x <= y

Max(S) == CHOOSE x \in S : \A y \in S : x >= y

\* The NUL character "\0".
NUL == "NUL"

\* The characters blocks are made of: a lower-case and an upper-case letter,
\* the equals sign and the terminator.
Chars == {"a", "A", "=", NUL}

\* s[lo:hi] for 0 <= lo, with Python's clamping of hi.
Slice(s, lo, hi) == SubSeq(s, lo + 1, IF hi > Len(s) THEN Len(s) ELSE hi)

\* s.find(ch, start, end): the lowest index in start..end-1 holding ch, or -1.
find(s, ch, start, end) ==
    LET hits == {i \in start..(end - 1) : i < Len(s) /\ s[i + 1] = ch}
    IN  IF hits = {} THEN -1 ELSE Min(hits)

\* str.upper() on the model's alphabet.
upper(s) == [i \in 1..Len(s) |-> IF s[i] = "a" THEN "A" ELSE s[i]]

\* d[k] = v on a dictionary held as a function.
DictSet(d, k, v) == [x \in DOMAIN d \cup {k} |-> IF x = k THEN v ELSE d[x]]

\* {}
EmptyDict == <<>>

(***************************************************************************)
(* The state of a component that the specification at hand does not run.   *)
(***************************************************************************)
\* The threads that use one memoized function.
Threads == 1..MaxThreads

\* What a thread has observed when it has not started anything.
NotSeen ==
    [op |-> "none", start |-> 0, uncached |-> FALSE, next |-> FALSE,
     epoch |-> 0, first |-> FALSE, miss |-> FALSE]

MemoOff ==
    /\ cache = EmptyDict
    /\ lock = [owner |-> {}, count |-> 0]
    /\ calls = {}
    /\ epoch = 0
    /\ looked = {}
    /\ pc = [t \in Threads |-> "off"]
    /\ args = [t \in Threads |-> <<>>]
    /\ kwargs = [t \in Threads |-> <<>>]
    /\ key = [t \in Threads |-> NoKey]
    /\ wret = [t \in Threads |-> NoValue]
    /\ seen = [t \in Threads |-> NotSeen]
    /\ nops = 0
    /\ uncalled = {}
    /\ raises = {}

EnvOff ==
    /\ WINDOWS = FALSE
    /\ data = <<>>
    /\ pos = 0
    /\ ret = EmptyDict
    /\ env_pc = "off"

\* No address family / no outcome yet.
NoFamily == "None"

NoOutcome == [none |-> TRUE]

SockOff ==
    /\ sys_version_info = <<3, 4>>
    /\ AF_INET6 = NoFamily
    /\ AF_UNIX = NoFamily
    /\ conn_tmap = EmptyDict
    /\ sock_pc = "off"
    /\ conn_out = NoOutcome
    /\ enum_out = NoOutcome

PctOff ==
    /\ used = NoOutcome
    /\ total = NoOutcome
    /\ round_ = <<>>
    /\ pret = NoOutcome
    /\ pct_pc = "off"

ErrOff ==
    /\ exc = NoOutcome
    /\ exc_repr = <<>>
    /\ err_pc = "off"

ProcOff ==
    /\ handles = <<>>
    /\ pyset = {}
    /\ added = {}
    /\ cmp = NoOutcome
    /\ proc_pc = "off"

StrictOff ==
    /\ strict_fn = "None"
    /\ os_stat = NoOutcome
    /\ strict_out = NoOutcome
    /\ strict_pc = "off"

(***************************************************************************)
(* memoize, _common.py:102-137.                                            *)
(***************************************************************************)
\* The calls made, each a pair of the positional arguments and the keyword
\* arguments as (name, value) pairs in passing order: foo(), foo(1),
\* foo(1, bar=2), foo(1, bar=2, baz=3) and foo(1, baz=3, bar=2).
CallForms ==
    {<<<<>>, <<>>>>,
     <<<<1>>, <<>>>>,
     <<<<1>>, <<<<"bar", 2>>>>>>,
     <<<<1>>, <<<<"bar", 2>>, <<"baz", 3>>>>>>,
     <<<<1>>, <<<<"baz", 3>>, <<"bar", 2>>>>>>}

\* String comparison on the keyword names in use.
NameRank(n) == IF n = "bar" THEN 1 ELSE 2

ItemLess(p, q) ==
    \/ NameRank(p[1]) < NameRank(q[1])
    \/ NameRank(p[1]) = NameRank(q[1]) /\ p[2] < q[2]

\* sorted(kwargs.items())
sorted(items) == SortSeq(items, ItemLess)

\* frozenset(seq)
frozenset(seq) == {seq[i] : i \in DOMAIN seq}

\* line 118: key = (args, frozenset(sorted(kwargs.items())))
Key_ordered(a, kw) == <<a, kw>>

Key_argsonly(a, kw) == <<a, {}>>

Key(a, kw) == <<a, frozenset(sorted(kw))>>

\* The keys of the calls made.
AllKeys == {Key(f[1], f[2]) : f \in CallForms}

\* The dictionary the wrapped function receives as **kwargs.
KwDict(kw) == [n \in {kw[i][1] : i \in DOMAIN kw} |->
                  (CHOOSE p \in frozenset(kw) : p[1] = n)[2]]

\* The test's wrapped function (test_misc.py:172-176) appends to calls and
\* returns (args, kwargs), a new object each time it runs: nth, the length of
\* calls after the append, tells the objects apart.
fun(a, kw, nth) == [args |-> a, kwargs |-> KwDict(kw), nth |-> nth]

\* lines 120-122: cache[key] succeeds, or raises KeyError
CacheHas_never(k) == FALSE

CacheHas(k) == k \in DOMAIN cache

\* threading.RLock: a thread may acquire when nobody else owns the lock.
RLockFree_nolock(t) == TRUE

RLockFree(t) == lock.owner \subseteq {t}

\* RLock.acquire() by thread t, once it may.
RLockAcquire(t) == [owner |-> {t}, count |-> lock.count + 1]

\* RLock.release(): the lock is free again when its depth drops to zero.
RLockRelease_held == lock

RLockRelease ==
    IF lock.count = 1
    THEN [owner |-> {}, count |-> 0]
    ELSE [owner |-> lock.owner, count |-> lock.count - 1]

\* line 130: cache.clear()
Cleared_kept(c) == c

Cleared(c) == EmptyDict

\* The state after memoize(fun) returned the wrapper (lines 134-137).
InitMemo ==
    /\ cache = EmptyDict
    /\ lock = [owner |-> {}, count |-> 0]
    /\ calls = {}
    /\ epoch = 0
    /\ looked = {}
    /\ pc = [t \in Threads |-> "idle"]
    /\ args = [t \in Threads |-> <<>>]
    /\ kwargs = [t \in Threads |-> <<>>]
    /\ key = [t \in Threads |-> NoKey]
    /\ wret = [t \in Threads |-> NoValue]
    /\ seen = [t \in Threads |-> NotSeen]
    /\ nops = 0
    /\ uncalled = {}
    /\ raises = {}
    /\ EnvOff
    /\ SockOff
    /\ PctOff
    /\ ErrOff
    /\ ProcOff
    /\ StrictOff

\* wrapper(*a, **kw) is called and computes its key (lines 117-118).
WrapperCall(t, a, kw) ==
    /\ pc[t] = "idle"
    /\ nops < MaxOps
    /\ nops' = nops + 1
    /\ args' = [args EXCEPT ![t] = a]
    /\ kwargs' = [kwargs EXCEPT ![t] = kw]
    /\ key' = [key EXCEPT ![t] = Key(a, kw)]
    /\ wret' = [wret EXCEPT ![t] = NoValue]
    /\ seen' = [seen EXCEPT ![t] =
                   [op |-> "call", start |-> epoch,
                    uncached |-> ~CacheHas(Key(a, kw)),
                    next |-> Key(a, kw) \in uncalled, epoch |-> epoch,
                    first |-> FALSE, miss |-> FALSE]]
    /\ uncalled' = uncalled \ {Key(a, kw)}
    /\ pc' = [pc EXCEPT ![t] = "with"]
    /\ UNCHANGED <<cache, lock, calls, epoch, looked>>
    /\ UNCHANGED raises
    /\ UNCHANGED <<envVars, sockVars, pctVars, errVars, procVars, strictVars>>

\* line 119: with lock (entry)
WrapperAcquire(t) ==
    /\ pc[t] = "with"
    /\ RLockFree(t)
    /\ lock' = RLockAcquire(t)
    /\ pc' = [pc EXCEPT ![t] = "lookup"]
    /\ UNCHANGED <<cache, calls, epoch, looked, args, kwargs, key, wret, seen, nops,
                 uncalled>>
    /\ UNCHANGED raises
    /\ UNCHANGED <<envVars, sockVars, pctVars, errVars, procVars, strictVars>>

\* lines 120-122: return cache[key], or KeyError
WrapperLookup(t) ==
    /\ pc[t] = "lookup"
    /\ seen' = [seen EXCEPT ![t].epoch = epoch,
                            ![t].first = key[t] \notin looked,
                            ![t].miss = ~CacheHas(key[t])]
    /\ looked' = looked \cup {key[t]}
    /\ IF CacheHas(key[t])
       THEN /\ wret' = [wret EXCEPT ![t] = cache[key[t]]]
            /\ pc' = [pc EXCEPT ![t] = "exit"]
       ELSE /\ wret' = wret
            /\ pc' = [pc EXCEPT ![t] = "fun"]
    /\ UNCHANGED <<cache, lock, calls, epoch, args, kwargs, key, nops,
                 uncalled>>
    /\ UNCHANGED raises
    /\ UNCHANGED <<envVars, sockVars, pctVars, errVars, procVars, strictVars>>

\* line 123: fun(*args, **kwargs) runs and its value is bound to ret
WrapperCallFun(t) ==
    /\ pc[t] = "fun"
    /\ LET nth == Cardinality(calls) + 1
       IN  /\ calls' = calls \cup {[key |-> key[t], epoch |-> epoch, nth |-> nth]}
           /\ wret' = [wret EXCEPT ![t] = fun(args[t], kwargs[t], nth)]
    /\ pc' = [pc EXCEPT ![t] = "store"]
    /\ UNCHANGED <<cache, lock, epoch, looked, args, kwargs, key, seen, nops,
                 uncalled>>
    /\ UNCHANGED raises
    /\ UNCHANGED <<envVars, sockVars, pctVars, errVars, procVars, strictVars>>

\* line 123: cache[key] = the value
WrapperStore(t) ==
    /\ pc[t] = "store"
    /\ cache' = DictSet(cache, key[t], wret[t])
    /\ pc' = [pc EXCEPT ![t] = "exit"]
    /\ UNCHANGED <<lock, calls, epoch, looked, args, kwargs, key, wret, seen, nops,
                 uncalled>>
    /\ UNCHANGED raises
    /\ UNCHANGED <<envVars, sockVars, pctVars, errVars, procVars, strictVars>>

\* line 119: with lock (exit)
WrapperRelease(t) ==
    /\ pc[t] = "exit"
    /\ lock' = RLockRelease
    /\ pc' = [pc EXCEPT ![t] = "return"]
    /\ UNCHANGED <<cache, calls, epoch, looked, args, kwargs, key, wret, seen, nops,
                 uncalled>>
    /\ UNCHANGED raises
    /\ UNCHANGED <<envVars, sockVars, pctVars, errVars, procVars, strictVars>>

\* lines 121, 124: the wrapper returns
WrapperReturn(t) ==
    /\ pc[t] = "return"
    /\ pc' = [pc EXCEPT ![t] = "idle"]
    /\ UNCHANGED <<cache, lock, calls, epoch, looked, args, kwargs, key, wret, seen, nops,
                 uncalled>>
    /\ UNCHANGED raises
    /\ UNCHANGED <<envVars, sockVars, pctVars, errVars, procVars, strictVars>>

\* line 123: fun(*args, **kwargs) runs and raises; nothing is assigned to
\* cache[key] or to ret.
WrapperFunRaises(t) ==
    /\ pc[t] = "fun"
    /\ LET nth == Cardinality(calls) + 1
       IN  /\ calls' = calls \cup {[key |-> key[t], epoch |-> epoch, nth |-> nth]}
           /\ raises' = raises \cup {nth}
    /\ seen' = [seen EXCEPT ![t].op = "raised"]
    /\ pc' = [pc EXCEPT ![t] = "exit_exc"]
    /\ UNCHANGED <<cache, lock, epoch, looked, args, kwargs, key, wret, nops,
                 uncalled>>
    /\ UNCHANGED <<envVars, sockVars, pctVars, errVars, procVars, strictVars>>

\* line 119: with lock (exit, with the exception in flight)
WrapperReleaseRaising(t) ==
    /\ pc[t] = "exit_exc"
    /\ lock' = RLockRelease
    /\ pc' = [pc EXCEPT ![t] = "raise"]
    /\ UNCHANGED <<cache, calls, epoch, looked, args, kwargs, key, wret, seen, nops,
                 uncalled, raises>>
    /\ UNCHANGED <<envVars, sockVars, pctVars, errVars, procVars, strictVars>>

\* The exception leaves the wrapper, which returns nothing.
WrapperPropagate(t) ==
    /\ pc[t] = "raise"
    /\ pc' = [pc EXCEPT ![t] = "idle"]
    /\ UNCHANGED <<cache, lock, calls, epoch, looked, args, kwargs, key, wret, seen, nops,
                 uncalled, raises>>
    /\ UNCHANGED <<envVars, sockVars, pctVars, errVars, procVars, strictVars>>

\* cache_clear() is called.
ClearCall(t) ==
    /\ pc[t] = "idle"
    /\ nops < MaxOps
    /\ nops' = nops + 1
    /\ seen' = [seen EXCEPT ![t] = [NotSeen EXCEPT !.op = "clear", !.start = epoch]]
    /\ pc' = [pc EXCEPT ![t] = "cc_acquire"]
    /\ UNCHANGED <<cache, lock, calls, epoch, looked, args, kwargs, key, wret,
                 uncalled>>
    /\ UNCHANGED raises
    /\ UNCHANGED <<envVars, sockVars, pctVars, errVars, procVars, strictVars>>

\* line 128: lock.acquire()
ClearAcquire(t) ==
    /\ pc[t] = "cc_acquire"
    /\ RLockFree(t)
    /\ lock' = RLockAcquire(t)
    /\ pc' = [pc EXCEPT ![t] = "cc_clear"]
    /\ UNCHANGED <<cache, calls, epoch, looked, args, kwargs, key, wret, seen, nops,
                 uncalled>>
    /\ UNCHANGED raises
    /\ UNCHANGED <<envVars, sockVars, pctVars, errVars, procVars, strictVars>>

\* line 130: cache.clear()
ClearCache(t) ==
    /\ pc[t] = "cc_clear"
    /\ cache' = Cleared(cache)
    /\ epoch' = epoch + 1
    /\ looked' = {}
    /\ pc' = [pc EXCEPT ![t] = "cc_release"]
    /\ UNCHANGED <<lock, calls, args, kwargs, key, wret, seen, nops,
                 uncalled>>
    /\ UNCHANGED raises
    /\ UNCHANGED <<envVars, sockVars, pctVars, errVars, procVars, strictVars>>

\* line 132: lock.release()
ClearRelease(t) ==
    /\ pc[t] = "cc_release"
    /\ lock' = RLockRelease
    /\ pc' = [pc EXCEPT ![t] = "cc_return"]
    /\ UNCHANGED <<cache, calls, epoch, looked, args, kwargs, key, wret, seen, nops,
                 uncalled>>
    /\ UNCHANGED raises
    /\ UNCHANGED <<envVars, sockVars, pctVars, errVars, procVars, strictVars>>

\* cache_clear() returns.
ClearReturn(t) ==
    /\ pc[t] = "cc_return"
    /\ pc' = [pc EXCEPT ![t] = "idle"]
    /\ uncalled' = AllKeys
    /\ UNCHANGED <<cache, lock, calls, epoch, looked, args, kwargs, key, wret, seen, nops>>
    /\ UNCHANGED raises
    /\ UNCHANGED <<envVars, sockVars, pctVars, errVars, procVars, strictVars>>

NextMemo ==
    \E t \in Threads :
        \/ \E f \in CallForms : WrapperCall(t, f[1], f[2])
        \/ WrapperAcquire(t)
        \/ WrapperLookup(t)
        \/ WrapperCallFun(t)
        \/ WrapperStore(t)
        \/ WrapperRelease(t)
        \/ WrapperReturn(t)
        \/ ClearCall(t)
        \/ ClearAcquire(t)
        \/ ClearCache(t)
        \/ ClearRelease(t)
        \/ ClearReturn(t)

SpecMemo == InitMemo /\ [][NextMemo]_vars

\* Calls of the wrapper around a function that may raise.
NextMemoRaising ==
    \E t \in Threads :
        \/ \E f \in CallForms : WrapperCall(t, f[1], f[2])
        \/ WrapperAcquire(t)
        \/ WrapperLookup(t)
        \/ WrapperCallFun(t)
        \/ WrapperFunRaises(t)
        \/ WrapperStore(t)
        \/ WrapperRelease(t)
        \/ WrapperReleaseRaising(t)
        \/ WrapperReturn(t)
        \/ WrapperPropagate(t)

SpecMemoRaising == InitMemo /\ [][NextMemoRaising]_vars

(***************************************************************************)
(* Claims about memoize.                                                   *)
(***************************************************************************)
\* Thread t's call of the wrapper has done its cache lookup.
LookedUp(t) ==
    seen[t].op = "call" /\ pc[t] \in {"fun", "store", "exit", "return", "idle"}

\* Thread t's call of the wrapper has its return value.
HasResult(t) == seen[t].op = "call" /\ pc[t] \in {"exit", "return", "idle"}

\* Thread t's call of the wrapper has returned.
Returned(t) == seen[t].op = "call" /\ pc[t] = "idle"

\* The invocations of the wrapped function for key k while cache.clear() had
\* run e times.
InvocationsIn(k, e) == {c \in calls : c.key = k /\ c.epoch = e}

\* Thread t's return value is what invocation c of the wrapped function made.
ReturnsResultOf(t, c) == wret[t] = fun(args[t], kwargs[t], c.nth)

\* C1: between two cache_clear() the wrapped function runs at most once per
\* key, and a call that has its return value returns what the one invocation
\* for its key made.
MemoOncePerSignature ==
    /\ \A c1 \in calls, c2 \in calls :
           (c1.key = c2.key /\ c1.epoch = c2.epoch) => c1 = c2
    /\ \A t \in Threads :
           HasResult(t) =>
               /\ Cardinality(InvocationsIn(key[t], seen[t].epoch)) = 1
               /\ \A c \in InvocationsIn(key[t], seen[t].epoch) :
                      ReturnsResultOf(t, c)

\* C1 witness: a call made for a signature that was cached already returned
\* from the cache, the wrapped function having run once for it.
MemoOnceWitness ==
    \E t \in Threads :
        /\ Returned(t)
        /\ ~seen[t].uncached
        /\ ~seen[t].miss
        /\ seen[t].epoch = 0
        /\ Cardinality(InvocationsIn(key[t], 0)) = 1

\* The places of wrapper and cache_clear where the lock is held.
Critical == {"lookup", "fun", "store", "exit", "cc_clear", "cc_release"}

\* Threads t1 and t2 both called the wrapper with the same signature while it
\* was not cached, with no cache.clear() since, and both have returned.
RacedOnUncached(t1, t2) ==
    /\ t1 # t2
    /\ Returned(t1) /\ Returned(t2)
    /\ key[t1] = key[t2]
    /\ seen[t1].uncached /\ seen[t2].uncached
    /\ seen[t1].start = seen[t1].epoch
    /\ seen[t2].start = seen[t2].epoch
    /\ seen[t1].epoch = seen[t2].epoch

\* C2: no two threads are between taking and releasing the lock at once, and
\* when threads call the wrapper with the same uncached signature the wrapped
\* function runs once for it and they all return that one result.
MemoAtomic ==
    /\ \A t1 \in Threads, t2 \in Threads :
           (pc[t1] \in Critical /\ pc[t2] \in Critical) => t1 = t2
    /\ \A t1 \in Threads, t2 \in Threads :
           RacedOnUncached(t1, t2) =>
               /\ wret[t1] = wret[t2]
               /\ Cardinality(InvocationsIn(key[t1], seen[t1].epoch)) = 1

\* C2 witness: two threads raced on one uncached signature and have returned.
MemoAtomicWitness ==
    \E t1 \in Threads, t2 \in Threads :
        /\ RacedOnUncached(t1, t2)
        /\ seen[t1].miss /\ ~seen[t2].miss
        /\ wret[t1] = wret[t2]
        /\ Cardinality(calls) = 1

\* C3 as stated: after cache_clear() has returned, the first call made for a
\* signature misses the cache and so runs the wrapped function.
MemoNextCallAfterReturn ==
    \A t \in Threads : (LookedUp(t) /\ seen[t].next) => seen[t].miss

\* C3 amended: when cache.clear() has run the cache is empty, and the first
\* call to look a signature up after it misses, runs the wrapped function and
\* returns what that invocation made; that call may be one another thread
\* began before cache_clear() returned.
MemoClearRecomputes ==
    /\ \A t \in Threads : pc[t] = "cc_release" => cache = EmptyDict
    /\ \A t \in Threads :
           (LookedUp(t) /\ seen[t].first /\ seen[t].epoch > 0) => seen[t].miss
    /\ \A t \in Threads :
           (HasResult(t) /\ seen[t].first /\ seen[t].epoch > 0) =>
               \E c \in InvocationsIn(key[t], seen[t].epoch) :
                   ReturnsResultOf(t, c)

\* C3 witness: a signature was computed, then cleared while another thread's
\* call for it was under way, and that call ran the wrapped function again.
MemoClearWitness ==
    \E t \in Threads :
        /\ Returned(t)
        /\ seen[t].start = 0
        /\ seen[t].epoch = 1
        /\ seen[t].first
        /\ seen[t].miss
        /\ InvocationsIn(key[t], 0) # {}
        /\ InvocationsIn(key[t], 1) # {}

\* C4: two calls with no cache.clear() between their lookups return the same
\* stored object exactly when their positional arguments are equal and their
\* keywords are the same set of (name, value) pairs, whatever the passing
\* order; and a call returns a result made from its own arguments.
MemoKeyEquivalence ==
    /\ \A t1 \in Threads, t2 \in Threads :
           (HasResult(t1) /\ HasResult(t2) /\ seen[t1].epoch = seen[t2].epoch) =>
               ((wret[t1] = wret[t2]) <=>
                    (/\ args[t1] = args[t2]
                     /\ frozenset(kwargs[t1]) = frozenset(kwargs[t2])))
    /\ \A t \in Threads :
           HasResult(t) =>
               /\ wret[t].args = args[t]
               /\ wret[t].kwargs = KwDict(kwargs[t])

\* C4 witness: foo(1, bar=2, baz=3) and foo(1, baz=3, bar=2) shared an entry.
MemoKeyWitness ==
    \E t1 \in Threads, t2 \in Threads :
        /\ Returned(t1) /\ Returned(t2)
        /\ kwargs[t1] = <<<<"bar", 2>>, <<"baz", 3>>>>
        /\ kwargs[t2] = <<<<"baz", 3>>, <<"bar", 2>>>>
        /\ wret[t1] = wret[t2]

(***************************************************************************)
(* parse_environ_block, _common.py:183-208.                                *)
(***************************************************************************)
\* line 193: next_pos = data.find("\0", pos)
EnvNextPos_endterm(d, p) ==
    LET n == find(d, NUL, p, Len(d)) IN IF n = -1 THEN Len(d) ELSE n

EnvNextPos(d, p) == find(d, NUL, p, Len(d))

\* line 195: if next_pos <= pos: break
EnvFinished_strict(next_pos, p) == next_pos < p

EnvFinished(next_pos, p) == next_pos <= p

\* line 198: equal_pos = data.find("=", pos, next_pos)
EnvEqualPos(d, p, next_pos) == find(d, "=", p, next_pos)

\* line 199: if equal_pos > pos
EnvIsAssignment_emptykey(equal_pos, p) == equal_pos >= p

EnvIsAssignment(equal_pos, p) == equal_pos > p

\* lines 200, 203-204: key = data[pos:equal_pos], upper-cased on Windows
EnvKey(d, p, equal_pos, w) ==
    IF w THEN upper(Slice(d, p, equal_pos)) ELSE Slice(d, p, equal_pos)

\* line 201: value = data[equal_pos+1:next_pos]
EnvValue(d, equal_pos, next_pos) == Slice(d, equal_pos + 1, next_pos)

\* One iteration of the while loop (lines 192-206) from position p with
\* dictionary r: whether it broke out, and the new position and dictionary.
EnvIteration(d, p, r, w) ==
    LET next_pos == EnvNextPos(d, p)
        equal_pos == EnvEqualPos(d, p, next_pos)
    IN  IF EnvFinished(next_pos, p)
        THEN [brk |-> TRUE, pos |-> p, ret |-> r]
        ELSE [brk |-> FALSE,
              pos |-> next_pos + 1,
              ret |-> IF EnvIsAssignment(equal_pos, p)
                      THEN DictSet(r, EnvKey(d, p, equal_pos, w),
                                   EnvValue(d, equal_pos, next_pos))
                      ELSE r]

\* The whole loop, run to its break.
RECURSIVE EnvLoop(_, _, _, _)
EnvLoop(d, p, r, w) ==
    LET it == EnvIteration(d, p, r, w)
    IN  IF it.brk THEN it.ret ELSE EnvLoop(d, it.pos, it.ret, w)

\* parse_environ_block(data) as a function of the block and the platform.
parse_environ_block(d, w) == EnvLoop(d, 0, EmptyDict, w)

\* The blocks enumerated: every string over Chars of length at most MaxLen.
Blocks == UNION {[1..n -> Chars] : n \in 0..MaxLen}

InitEnv ==
    /\ WINDOWS \in BOOLEAN
    /\ data \in Blocks
    /\ pos = 0
    /\ ret = EmptyDict
    /\ env_pc = "loop"
    /\ MemoOff
    /\ SockOff
    /\ PctOff
    /\ ErrOff
    /\ ProcOff
    /\ StrictOff

\* An iteration of the while loop that processes an entry (lines 193-206).
EnvScanEntry ==
    /\ env_pc = "loop"
    /\ LET it == EnvIteration(data, pos, ret, WINDOWS)
       IN  /\ ~it.brk
           /\ pos' = it.pos
           /\ ret' = it.ret
    /\ UNCHANGED <<WINDOWS, data, env_pc>>
    /\ UNCHANGED <<memoVars, sockVars, pctVars, errVars, procVars, strictVars>>

\* The iteration that breaks out of the loop and returns ret (lines 195-196, 208).
EnvReturn ==
    /\ env_pc = "loop"
    /\ EnvIteration(data, pos, ret, WINDOWS).brk
    /\ env_pc' = "done"
    /\ UNCHANGED <<WINDOWS, data, pos, ret>>
    /\ UNCHANGED <<memoVars, sockVars, pctVars, errVars, procVars, strictVars>>

NextEnv == EnvScanEntry \/ EnvReturn

SpecEnv == InitEnv /\ [][NextEnv]_vars

(***************************************************************************)
(* Claims about parse_environ_block.                                       *)
(***************************************************************************)
\* The 0-based positions of the block's empty entries: a NUL at the very
\* start or a NUL right after another NUL.
EmptyEntries(d) ==
    {i \in 0..(Len(d) - 1) : d[i + 1] = NUL /\ (i = 0 \/ d[i] = NUL)}

\* Where the first empty entry is, or the block's length when it has none.
StopPoint(d) == IF EmptyEntries(d) = {} THEN Len(d) ELSE Min(EmptyEntries(d))

\* The platform's normalisation of a variable name.
PlatformKey(k) == IF WINDOWS THEN upper(k) ELSE k

\* C5: parse_environ_block stops at the first empty entry: the result is the
\* result for the part of the block before it, every key of the result is the
\* name of an entry that begins before it, and a block that is empty or starts
\* with NUL yields the empty mapping.
EnvStopsAtEmptyEntry ==
    env_pc = "done" =>
        LET stop == StopPoint(data)
        IN  /\ ret = parse_environ_block(Slice(data, 0, stop), WINDOWS)
            /\ \A k \in DOMAIN ret :
                   \E i \in 0..(stop - 1), j \in 0..(stop - 1) :
                       /\ i < j
                       /\ i = 0 \/ data[i] = NUL
                       /\ data[j + 1] = "="
                       /\ PlatformKey(Slice(data, i, j)) = k
            /\ (data = <<>> \/ data[1] = NUL) => ret = EmptyDict

\* C5 witness: "a=\0\0A=\0" parsed off Windows: the entry after the double
\* NUL is a well-formed assignment and its key is not in the result.
EnvStopsWitness ==
    /\ env_pc = "done"
    /\ ~WINDOWS
    /\ data = <<"a", "=", NUL, NUL, "A", "=", NUL>>
    /\ DOMAIN ret = {<<"a">>}

\* The entry that starts at the scan position: its text, when a NUL
\* terminates it and it is not empty.
EntryEnds == {i \in pos..(Len(data) - 1) : data[i + 1] = NUL}

EntryScanned == env_pc = "loop" /\ EntryEnds # {} /\ Min(EntryEnds) > pos

Entry == Slice(data, pos, Min(EntryEnds))

\* The 1-based places of '=' in the entry.
EntryEquals == {i \in 1..Len(Entry) : Entry[i] = "="}

\* What one scanned entry does to the result when the key is made by mk.
EntryEffect(mk(_)) ==
    EntryScanned =>
        /\ pos' = Min(EntryEnds) + 1
        /\ env_pc' = "loop"
        /\ IF EntryEquals = {} \/ Min(EntryEquals) = 1
           THEN ret' = ret
           ELSE LET e == Min(EntryEquals)
                IN  ret' = DictSet(ret, mk(SubSeq(Entry, 1, e - 1)),
                                   SubSeq(Entry, e + 1, Len(Entry)))

RawKey(k) == k

\* C6 as stated: a scanned entry without '=' or with '=' first adds nothing
\* and the scan goes on; any other is split at its first '=', the text before
\* being the key and the text after the value.
EnvEntrySplitRawKey == [][EntryEffect(RawKey)]_vars

\* C6 amended: the same, the key being the text before the first '=' in the
\* platform's case: upper-cased when the platform is Windows.
EnvEntrySplit == [][EntryEffect(PlatformKey)]_vars

\* C6 witness: "a==a\0=\0" parsed on Windows: the first entry is split at its
\* first '=' with value "=a", the second has an empty key and adds nothing.
EnvEntrySplitWitness ==
    /\ env_pc = "done"
    /\ WINDOWS
    /\ data = <<"a", "=", "=", "a", NUL, "=", NUL>>
    /\ ret = [k \in {<<"A">>} |-> <<"=", "a">>]

\* A block whose final entry lacks its terminator.
Truncated(d) == d # <<>> /\ d[Len(d)] # NUL

\* The 0-based position of the block's last NUL, or -1.
LastNul(d) == Max({-1} \cup {i \in 0..(Len(d) - 1) : d[i + 1] = NUL})

\* C7: on a block whose last entry is unterminated the scan stays inside the
\* block and returns exactly the mapping of the terminated entries before the
\* tail.
EnvTruncatedTailDropped ==
    /\ env_pc = "loop" => pos \in 0..Len(data)
    /\ (env_pc = "done" /\ Truncated(data)) =>
           ret = parse_environ_block(Slice(data, 0, LastNul(data) + 1), WINDOWS)

\* C7 witness: "a=a\0A=a" parsed off Windows: the tail A=a has the form
\* KEY=VALUE and is not in the result.
EnvTruncatedWitness ==
    /\ env_pc = "done"
    /\ ~WINDOWS
    /\ data = <<"a", "=", "a", NUL, "A", "=", "a">>
    /\ ret = [k \in {<<"a">>} |-> <<"a">>]


(***************************************************************************)
(* The interpreter and the socket module the code runs on.                 *)
(***************************************************************************)
\* The interpreters told apart by the code: Python 2, Python 3 before 3.4
\* (no enum module) and Python 3.4 or later.
Versions == {<<2, 7>>, <<3, 3>>, <<3, 4>>}

\* Tuple comparison v >= w on (major, minor).
VersionAtLeast(v, w) == v[1] > w[1] \/ (v[1] = w[1] /\ v[2] >= w[2])

\* lines 27-30: enum is the module from 3.4 on, else None
enum_is_None == ~VersionAtLeast(sys_version_info, <<3, 4>>)

\* The numeric codes of the address families (Linux values).
FamilyCode == [AF_UNIX |-> 1, AF_INET |-> 2, AF_INET6 |-> 10]

\* The numeric codes of the socket types: SOCK_STREAM, SOCK_DGRAM, SOCK_RAW,
\* SOCK_RDM, SOCK_SEQPACKET.
TypeCodes == {1, 2, 3, 4, 5}

\* The IntEnum classes the socket module has when enum exists.
SocketEnums == IF enum_is_None THEN {} ELSE {"AddressFamily", "SocketKind"}

\* The values that are members of an enum class of the socket module.
EnumMembers(cls) ==
    IF cls = "AddressFamily"
    THEN {FamilyCode[f] : f \in {"AF_INET", AF_INET6, AF_UNIX} \ {NoFamily}}
    ELSE TypeCodes

\* socket.<cls>(num): the member, or AttributeError when the module has no
\* such class, or ValueError when the class has no such member.
EnumCall(cls, num) ==
    IF cls \notin SocketEnums THEN [exc |-> "AttributeError"]
    ELSE IF num \in EnumMembers(cls) THEN [enum |-> cls, value |-> num]
    ELSE [exc |-> "ValueError"]

(***************************************************************************)
(* sockfam_to_enum and socktype_to_enum, _common.py:211-234.               *)
(***************************************************************************)
\* try: return socket.<cls>(num); except (ValueError, AttributeError):
\* return num (lines 215-221 and 228-234).
to_enum(cls, num) ==
    IF enum_is_None THEN [int |-> num]
    ELSE LET r == EnumCall(cls, num)
         IN  IF "exc" \in DOMAIN r THEN [int |-> num] ELSE r

\* line 219: socket.AddressFamily(num)
sockfam_to_enum(num) == to_enum("AddressFamily", num)

\* line 232: socket.AddressType(num)
socktype_to_enum(num) == to_enum("AddressType", num)

\* The numeric codes handed to the normalizers.
Codes == 0..MaxCode

(***************************************************************************)
(* conn_tmap, _common.py:257-279.                                          *)
(***************************************************************************)
\* d.update(e)
DictUpdate(d, e) ==
    [x \in DOMAIN d \cup DOMAIN e |-> IF x \in DOMAIN e THEN e[x] ELSE d[x]]

\* lines 257-266
ConnBase ==
    [all   |-> <<<<"AF_INET", AF_INET6, AF_UNIX>>, <<"SOCK_STREAM", "SOCK_DGRAM">>>>,
     tcp   |-> <<<<"AF_INET", AF_INET6>>, <<"SOCK_STREAM">>>>,
     tcp4  |-> <<<<"AF_INET">>, <<"SOCK_STREAM">>>>,
     udp   |-> <<<<"AF_INET", AF_INET6>>, <<"SOCK_DGRAM">>>>,
     udp4  |-> <<<<"AF_INET">>, <<"SOCK_DGRAM">>>>,
     inet  |-> <<<<"AF_INET", AF_INET6>>, <<"SOCK_STREAM", "SOCK_DGRAM">>>>,
     inet4 |-> <<<<"AF_INET">>, <<"SOCK_STREAM", "SOCK_DGRAM">>>>,
     inet6 |-> <<<<AF_INET6>>, <<"SOCK_STREAM", "SOCK_DGRAM">>>>]

\* lines 269-272
ConnIpv6 ==
    [tcp6 |-> <<<<AF_INET6>>, <<"SOCK_STREAM">>>>,
     udp6 |-> <<<<AF_INET6>>, <<"SOCK_DGRAM">>>>]

\* lines 275-277
ConnUnix == [unix |-> <<<<AF_UNIX>>, <<"SOCK_STREAM", "SOCK_DGRAM">>>>]

\* The kinds callers ask for: the eleven keywords and an unknown one.
Kinds ==
    {"all", "tcp", "tcp4", "udp", "udp4", "inet", "inet4", "inet6", "tcp6",
     "udp6", "unix", "bogus"}

\* The resolution of a kind against the table (spec section 4.4).
resolve(kind) ==
    IF kind \in DOMAIN conn_tmap
    THEN [kind |-> kind, entry |-> conn_tmap[kind]]
    ELSE [kind |-> kind, exc |-> "UnknownConnectionKind"]

\* The module is imported on some build and interpreter (lines 27, 45-46).
InitSock ==
    /\ sys_version_info \in Versions
    /\ AF_INET6 \in {"AF_INET6", NoFamily}
    /\ AF_UNIX \in {"AF_UNIX", NoFamily}
    /\ conn_tmap = EmptyDict
    /\ sock_pc = "base"
    /\ conn_out = NoOutcome
    /\ enum_out = NoOutcome
    /\ EnvOff
    /\ MemoOff
    /\ PctOff
    /\ ErrOff
    /\ ProcOff
    /\ StrictOff

\* lines 257-266: the table is created
ConnCreate ==
    /\ sock_pc = "base"
    /\ conn_tmap' = ConnBase
    /\ sock_pc' = "ipv6"
    /\ UNCHANGED <<sys_version_info, AF_INET6, AF_UNIX, conn_out, enum_out>>
    /\ UNCHANGED <<envVars, memoVars, pctVars, errVars, procVars, strictVars>>

\* lines 268-272: if AF_INET6 is not None, tcp6 and udp6 are added
ConnAddIpv6 ==
    /\ sock_pc = "ipv6"
    /\ AF_INET6 # NoFamily
    /\ conn_tmap' = DictUpdate(conn_tmap, ConnIpv6)
    /\ sock_pc' = "unix"
    /\ UNCHANGED <<sys_version_info, AF_INET6, AF_UNIX, conn_out, enum_out>>
    /\ UNCHANGED <<envVars, memoVars, pctVars, errVars, procVars, strictVars>>

\* line 268: AF_INET6 is None
ConnSkipIpv6 ==
    /\ sock_pc = "ipv6"
    /\ AF_INET6 = NoFamily
    /\ sock_pc' = "unix"
    /\ UNCHANGED <<sys_version_info, AF_INET6, AF_UNIX, conn_tmap, conn_out, enum_out>>
    /\ UNCHANGED <<envVars, memoVars, pctVars, errVars, procVars, strictVars>>

\* lines 274-277: if AF_UNIX is not None, unix is added
ConnAddUnix ==
    /\ sock_pc = "unix"
    /\ AF_UNIX # NoFamily
    /\ conn_tmap' = DictUpdate(conn_tmap, ConnUnix)
    /\ sock_pc' = "ready"
    /\ UNCHANGED <<sys_version_info, AF_INET6, AF_UNIX, conn_out, enum_out>>
    /\ UNCHANGED <<envVars, memoVars, pctVars, errVars, procVars, strictVars>>

\* line 274: AF_UNIX is None
ConnSkipUnix ==
    /\ sock_pc = "unix"
    /\ AF_UNIX = NoFamily
    /\ sock_pc' = "ready"
    /\ UNCHANGED <<sys_version_info, AF_INET6, AF_UNIX, conn_tmap, conn_out, enum_out>>
    /\ UNCHANGED <<envVars, memoVars, pctVars, errVars, procVars, strictVars>>

\* A caller resolves a kind.
Resolve(kind) ==
    /\ sock_pc = "ready"
    /\ conn_out' = resolve(kind)
    /\ UNCHANGED <<sys_version_info, AF_INET6, AF_UNIX, conn_tmap, sock_pc, enum_out>>
    /\ UNCHANGED <<envVars, memoVars, pctVars, errVars, procVars, strictVars>>

\* A caller normalizes an address-family code.
SockfamToEnum(num) ==
    /\ sock_pc = "ready"
    /\ enum_out' = [fn |-> "sockfam_to_enum", num |-> num,
                    value |-> sockfam_to_enum(num)]
    /\ UNCHANGED <<sys_version_info, AF_INET6, AF_UNIX, conn_tmap, sock_pc, conn_out>>
    /\ UNCHANGED <<envVars, memoVars, pctVars, errVars, procVars, strictVars>>

\* A caller normalizes a socket-type code.
SocktypeToEnum(num) ==
    /\ sock_pc = "ready"
    /\ enum_out' = [fn |-> "socktype_to_enum", num |-> num,
                    value |-> socktype_to_enum(num)]
    /\ UNCHANGED <<sys_version_info, AF_INET6, AF_UNIX, conn_tmap, sock_pc, conn_out>>
    /\ UNCHANGED <<envVars, memoVars, pctVars, errVars, procVars, strictVars>>

NextSock ==
    \/ ConnCreate
    \/ ConnAddIpv6
    \/ ConnSkipIpv6
    \/ ConnAddUnix
    \/ ConnSkipUnix
    \/ \E kind \in Kinds : Resolve(kind)
    \/ \E num \in Codes : SockfamToEnum(num)
    \/ \E num \in Codes : SocktypeToEnum(num)

SpecSock == InitSock /\ [][NextSock]_vars

(***************************************************************************)
(* Claims about conn_tmap and the normalizers.                             *)
(***************************************************************************)
\* The kinds that select only address families the build lacks.
UnsupportedKinds ==
    (IF AF_INET6 = NoFamily THEN {"inet6", "tcp6", "udp6"} ELSE {})
        \cup (IF AF_UNIX = NoFamily THEN {"unix"} ELSE {})

\* C8: once conn_tmap is built, a kind that selects only an address family
\* the build lacks is not in the table, and resolving it fails as an unknown
\* kind.
ConnUnsupportedOmitted ==
    sock_pc = "ready" =>
        /\ UnsupportedKinds \cap DOMAIN conn_tmap = {}
        /\ ("kind" \in DOMAIN conn_out /\ conn_out.kind \in UnsupportedKinds) =>
               "exc" \in DOMAIN conn_out

\* C9: with enum support each normalizer returns the named symbol for a code
\* that is an address family (a socket type) of the runtime, and the raw
\* number for any other code.
EnumNamedOrRaw ==
    (~enum_is_None /\ "fn" \in DOMAIN enum_out) =>
        LET cls == IF enum_out.fn = "sockfam_to_enum"
                   THEN "AddressFamily" ELSE "SocketKind"
        IN  enum_out.value =
                IF enum_out.num \in EnumMembers(cls)
                THEN [enum |-> cls, value |-> enum_out.num]
                ELSE [int |-> enum_out.num]


(***************************************************************************)
(* usage_percent, _common.py:90-99.                                        *)
(***************************************************************************)
RECURSIVE GCD(_, _)
GCD(a, b) == IF b = 0 THEN a ELSE GCD(b, a % b)

\* A number: an int or a float, its value the fraction num/den in lowest
\* terms (binary rounding of floats is not modelled).
Number(ty, n, d) ==
    LET g == IF n = 0 THEN d ELSE GCD(n, d)
    IN  [type |-> ty, num |-> n \div g, den |-> d \div g]

\* isinstance(x, float)
IsFloat(x) == x.type = "float"

\* x / y under "from __future__ import division" (line 7), for y # 0
TrueDiv(x, y) == Number("float", x.num * y.den, x.den * y.num)

\* x * 100
Times100(x) == Number(x.type, x.num * 100, x.den)

\* The built-in round(x, nd) for x >= 0 and nd >= 0. Python 3 rounds halves
\* to even and gives an int for an int; Python 2 rounds halves away from
\* zero and always gives a float.
round(x, nd) ==
    LET py3  == VersionAtLeast(sys_version_info, <<3, 0>>)
        n    == x.num * (10 ^ nd)
        q    == n \div x.den
        r    == n % x.den
        up   == \/ 2 * r > x.den
                \/ 2 * r = x.den /\ (~py3 \/ q % 2 = 1)
        val  == IF up THEN q + 1 ELSE q
    IN  IF py3 /\ x.type = "int"
        THEN x
        ELSE Number("float", val, 10 ^ nd)

\* line 95: 0.0 if isinstance(used, float) or isinstance(total, float) else 0
ZeroFor(u, t) ==
    IF IsFloat(u) \/ IsFloat(t) THEN Number("float", 0, 1) ELSE Number("int", 0, 1)

\* The arguments: ints and floats with the values 0..MaxAmount.
Amounts == {Number(ty, n, 1) : ty \in {"int", "float"}, n \in 0..MaxAmount}

\* The _round argument: None or a digit count.
Rounds == {<<>>} \cup {<<nd>> : nd \in 0..MaxDigits}

\* usage_percent(used, total, _round) is called on some interpreter.
InitPct ==
    /\ sys_version_info \in Versions
    /\ used \in Amounts
    /\ total \in Amounts
    /\ round_ \in Rounds
    /\ pret = NoOutcome
    /\ pct_pc = "try"
    /\ AF_INET6 = NoFamily
    /\ AF_UNIX = NoFamily
    /\ conn_tmap = EmptyDict
    /\ sock_pc = "off"
    /\ conn_out = NoOutcome
    /\ enum_out = NoOutcome
    /\ EnvOff
    /\ MemoOff
    /\ ErrOff
    /\ ProcOff
    /\ StrictOff

\* line 93: ret = (used / total) * 100
PctDivide ==
    /\ pct_pc = "try"
    /\ total.num # 0
    /\ pret' = Times100(TrueDiv(used, total))
    /\ pct_pc' = "computed"
    /\ UNCHANGED <<used, total, round_>>
    /\ UNCHANGED <<envVars, memoVars, sockVars, errVars, procVars, strictVars>>

\* lines 94-95: the division raised ZeroDivisionError
PctZeroDivision ==
    /\ pct_pc = "try"
    /\ total.num = 0
    /\ pret' = ZeroFor(used, total)
    /\ pct_pc' = "computed"
    /\ UNCHANGED <<used, total, round_>>
    /\ UNCHANGED <<envVars, memoVars, sockVars, errVars, procVars, strictVars>>

\* lines 96-97: return round(ret, _round)
PctReturnRounded ==
    /\ pct_pc = "computed"
    /\ round_ # <<>>
    /\ pret' = round(pret, round_[1])
    /\ pct_pc' = "done"
    /\ UNCHANGED <<used, total, round_>>
    /\ UNCHANGED <<envVars, memoVars, sockVars, errVars, procVars, strictVars>>

\* lines 98-99: return ret
PctReturn ==
    /\ pct_pc = "computed"
    /\ round_ = <<>>
    /\ pct_pc' = "done"
    /\ UNCHANGED <<used, total, round_, pret>>
    /\ UNCHANGED <<envVars, memoVars, sockVars, errVars, procVars, strictVars>>

NextPct == PctDivide \/ PctZeroDivision \/ PctReturnRounded \/ PctReturn

SpecPct == InitPct /\ [][NextPct]_vars

(***************************************************************************)
(* Claims about usage_percent.                                             *)
(***************************************************************************)
\* C10: with total equal to zero usage_percent returns, for every _round,
\* the float 0.0 if used or total is a float and the int 0 otherwise.
PctZeroTotalTyped ==
    (pct_pc = "done" /\ total.num = 0) =>
        pret = [type |-> IF IsFloat(used) \/ IsFloat(total) THEN "float" ELSE "int",
                num |-> 0, den |-> 1]

(***************************************************************************)
(* The error taxonomy: NoSuchProcess, ZombieProcess and AccessDenied as    *)
(* constructed and rendered in tests/test_misc.py:75-113.  Text is a       *)
(* sequence of pieces; an optional argument is <<>> when it is not given   *)
(* and <<v>> when it is.                                                   *)
(***************************************************************************)
ErrorKinds == {"NoSuchProcess", "ZombieProcess", "AccessDenied"}

\* The names and messages given ('foo' in the tests).
Texts == {"foo", "bar"}

Optional(S) == {<<>>} \cup {<<v>> : v \in S}

\* "%s" % n for a number n >= 0
RECURSIVE str(_)
str(n) ==
    LET digit(d) == <<"0", "1", "2", "3", "4", "5", "6", "7", "8", "9">>[d + 1]
    IN  IF n < 10 THEN <<digit(n)>> ELSE str(n \div 10) \o <<digit(n % 10)>>

\* repr(s) of a string without quotes in it
repr(s) == <<"'", s, "'">>

\* sep.join(items)
RECURSIVE join(_, _)
join(sep, items) ==
    IF items = <<>> THEN <<>>
    ELSE IF Len(items) = 1 THEN items[1]
    ELSE items[1] \o sep \o join(sep, Tail(items))

\* The rendered name of a kind: psutil.<class name>.
KindName(kind) == <<"psutil.", kind>>

\* The phrase a kind renders when no message was given to it.
DefaultPhrase(kind) ==
    CASE kind = "NoSuchProcess" -> <<"process no longer exists">>
      [] kind = "ZombieProcess" -> <<"process still exists but it's a zombie">>
      [] kind = "AccessDenied" -> <<>>

\* The structured fields in parentheses: pid, then name and ppid when given.
ErrDetails(e) ==
    <<"(">> \o
    join(<<", ">>,
         <<<<"pid=">> \o str(e.pid)>> \o
         (IF e.name # <<>> THEN <<<<"name=">> \o repr(e.name[1])>> ELSE <<>>) \o
         (IF e.ppid # <<>> THEN <<<<"ppid=">> \o str(e.ppid[1])>> ELSE <<>>)) \o
    <<")">>

\* The message of an error: the one given, else the default phrase and the
\* structured fields.
ErrMessage_withfields(e) ==
    IF e.msg # <<>>
    THEN <<e.msg[1], " ">> \o ErrDetails(e)
    ELSE join(<<" ">>, SelectSeq(<<DefaultPhrase(e.kind), ErrDetails(e)>>,
                                 LAMBDA piece : piece # <<>>))

ErrMessage(e) ==
    IF e.msg # <<>>
    THEN <<e.msg[1]>>
    ELSE join(<<" ">>, SelectSeq(<<DefaultPhrase(e.kind), ErrDetails(e)>>,
                                 LAMBDA piece : piece # <<>>))

\* repr(e): "<Kind> <message>"
ErrRender(e) == KindName(e.kind) \o <<" ">> \o ErrMessage(e)

InitErr ==
    /\ exc = NoOutcome
    /\ exc_repr = <<>>
    /\ err_pc = "new"
    /\ EnvOff
    /\ MemoOff
    /\ SockOff
    /\ PctOff
    /\ ProcOff
    /\ StrictOff

\* An error is constructed: NoSuchProcess(pid, name=None, msg=None),
\* AccessDenied(pid, name=None, msg=None) or
\* ZombieProcess(pid, name=None, ppid=None, msg=None).
ErrConstruct(kind, pid, name, ppid, msg) ==
    /\ err_pc = "new"
    /\ kind # "ZombieProcess" => ppid = <<>>
    /\ exc' = [kind |-> kind, pid |-> pid, name |-> name, ppid |-> ppid,
               msg |-> msg]
    /\ err_pc' = "constructed"
    /\ UNCHANGED exc_repr
    /\ UNCHANGED <<envVars, memoVars, sockVars, pctVars, procVars, strictVars>>

\* repr(error)
ErrRepr ==
    /\ err_pc = "constructed"
    /\ exc_repr' = ErrRender(exc)
    /\ err_pc' = "rendered"
    /\ UNCHANGED exc
    /\ UNCHANGED <<envVars, memoVars, sockVars, pctVars, procVars, strictVars>>

NextErr ==
    \/ \E kind \in ErrorKinds, pid \in 1..MaxPid, name \in Optional(Texts),
          ppid \in Optional(1..MaxPid), msg \in Optional(Texts) :
          ErrConstruct(kind, pid, name, ppid, msg)
    \/ ErrRepr

SpecErr == InitErr /\ [][NextErr]_vars

(***************************************************************************)
(* Claims about the error taxonomy.                                        *)
(***************************************************************************)
\* What follows the kind's name and a space when no message was given: the
\* default phrase, '(pid=<pid>', ', name=<name>' if a name was given,
\* ', ppid=<ppid>' if a ppid was given, and the closing parenthesis.
DefaultRendering(e) ==
    (IF DefaultPhrase(e.kind) = <<>> THEN <<>> ELSE DefaultPhrase(e.kind) \o <<" ">>) \o
    <<"(", "pid=">> \o str(e.pid) \o
    (IF e.name = <<>> THEN <<>> ELSE <<", ", "name=", "'", e.name[1], "'">>) \o
    (IF e.ppid = <<>> THEN <<>> ELSE <<", ", "ppid=">> \o str(e.ppid[1])) \o
    <<")">>

\* C11: an error renders as '<Kind> <message>' alone when a message was given
\* to it, and else as its kind, the kind's default phrase and '(pid=<pid>'
\* followed by ', name=<name>' and ', ppid=<ppid>', each only if given, in
\* that order.
ErrRenderingRule ==
    err_pc = "rendered" =>
        exc_repr = <<"psutil.", exc.kind, " ">> \o
                   (IF exc.msg # <<>> THEN <<exc.msg[1]>> ELSE DefaultRendering(exc))

\* A zombie error with a name and a ppid and no message has been rendered.
ErrRenderingWitness ==
    /\ err_pc = "rendered"
    /\ exc.kind = "ZombieProcess"
    /\ exc.msg = <<>>
    /\ exc.name # <<>>
    /\ exc.ppid # <<>>
    /\ exc.pid > 9

(***************************************************************************)
(* Process handles: their identity, == and hash, as used in                *)
(* tests/test_misc.py:127-137.  A Python value is a record of its type and *)
(* its content: which object it is for a handle, the components for a      *)
(* tuple, the code points for a string.                                    *)
(***************************************************************************)
\* The identity tuples (pid, create_time).
Idents == (1..MaxProcPid) \X (1..MaxCreateTime)

\* The handle that was constructed as the i-th.
Handle(i) == [type |-> "Process", v |-> <<i>>]

IsHandle(x) == x.type = "Process"

\* identity_of(handle): its _ident
ident(x) == handles[x.v[1]]

\* Values of other types a handle x is compared with: the string 'foo'
\* (test_misc.py:133) and the tuple that equals x's identity.
Unrelated(x) == {[type |-> "str", v |-> <<102, 111, 111>>],
                 [type |-> "tuple", v |-> ident(x)]}

\* What __eq__ returns: True, False or NotImplemented.
NotImplemented == "NotImplemented"

bool(b) == IF b THEN "True" ELSE "False"

\* handle.__eq__(other)
Process__eq___pidonly(self, other) ==
    IF ~IsHandle(other) THEN NotImplemented
    ELSE bool(ident(self)[1] = ident(other)[1])

Process__eq__(self, other) ==
    IF ~IsHandle(other) THEN NotImplemented
    ELSE bool(ident(self) = ident(other))

\* other.__eq__(handle) for a value that is not a handle: str and tuple do
\* not know the handle's type.
Builtin__eq__(self, other) ==
    IF self.type # other.type THEN NotImplemented ELSE bool(self.v = other.v)

\* x.__eq__(y)
Dunder__eq__(x, y) ==
    IF IsHandle(x) THEN Process__eq__(x, y) ELSE Builtin__eq__(x, y)

\* x is y
Is(x, y) == x.type = y.type /\ x.v = y.v

\* x == y: x.__eq__(y), else the reflected y.__eq__(x), else x is y
PyEq(x, y) ==
    IF Dunder__eq__(x, y) # NotImplemented THEN Dunder__eq__(x, y)
    ELSE IF Dunder__eq__(y, x) # NotImplemented THEN Dunder__eq__(y, x)
    ELSE bool(Is(x, y))

\* hash((pid, create_time)): a function of the tuple's components
TupleHash(id) == (id[1] + id[2]) % HashValues

\* hash(handle), derived from the identity tuple
Process__hash__(x) == TupleHash(ident(x))

\* set.add(x): x is left out when the set holds an element with x's hash
\* that is x or equals x.
SetAdd(set, x) ==
    IF \E e \in set : Process__hash__(e) = Process__hash__(x) /\ (Is(e, x) \/ PyEq(e, x) = "True")
    THEN set
    ELSE set \cup {x}

InitProc ==
    /\ handles = <<>>
    /\ pyset = {}
    /\ added = {}
    /\ cmp = NoOutcome
    /\ proc_pc = "on"
    /\ EnvOff
    /\ MemoOff
    /\ SockOff
    /\ PctOff
    /\ ErrOff
    /\ StrictOff

\* A handle is constructed for a process with pid and create_time.
ProcNew(pid, create_time) ==
    /\ proc_pc = "on"
    /\ Len(handles) < MaxHandles
    /\ handles' = Append(handles, <<pid, create_time>>)
    /\ UNCHANGED <<pyset, added, cmp, proc_pc>>
    /\ UNCHANGED <<envVars, memoVars, sockVars, pctVars, errVars, strictVars>>

\* x == y with a handle on the left or on the right
ProcCompare(x, y) ==
    /\ proc_pc = "on"
    /\ IsHandle(x) \/ IsHandle(y)
    /\ cmp' = [left |-> x, right |-> y, result |-> PyEq(x, y)]
    /\ UNCHANGED <<handles, pyset, added, proc_pc>>
    /\ UNCHANGED <<envVars, memoVars, sockVars, pctVars, errVars, strictVars>>

\* s.add(handle)
ProcSetAdd(x) ==
    /\ proc_pc = "on"
    /\ x \notin added
    /\ pyset' = SetAdd(pyset, x)
    /\ added' = added \cup {x}
    /\ UNCHANGED <<handles, cmp, proc_pc>>
    /\ UNCHANGED <<envVars, memoVars, sockVars, pctVars, errVars, strictVars>>

NextProc ==
    \/ \E id \in Idents : ProcNew(id[1], id[2])
    \/ \E i \in DOMAIN handles :
          \/ \E y \in {Handle(j) : j \in DOMAIN handles} \cup Unrelated(Handle(i)) :
                 ProcCompare(Handle(i), y) \/ ProcCompare(y, Handle(i))
          \/ ProcSetAdd(Handle(i))

SpecProc == InitProc /\ [][NextProc]_vars

(***************************************************************************)
(* Claims about process handles.                                           *)
(***************************************************************************)
Compared == proc_pc = "on" /\ cmp # NoOutcome

AllHandles == {Handle(i) : i \in DOMAIN handles}

\* C12: == on two handles gives True exactly when their (pid, create_time)
\* are equal; handles with equal identity have equal hashes, so a set holds
\* one element for each identity added to it; and == on a handle and a value
\* of another type gives False, without raising.
ProcIdentityContract ==
    /\ (Compared /\ IsHandle(cmp.left) /\ IsHandle(cmp.right)) =>
           cmp.result = bool(ident(cmp.left) = ident(cmp.right))
    /\ \A x, y \in AllHandles :
           ident(x) = ident(y) => Process__hash__(x) = Process__hash__(y)
    /\ \A x, y \in pyset : ident(x) = ident(y) => Is(x, y)
    /\ Cardinality(pyset) = Cardinality({ident(x) : x \in added})
    /\ (Compared /\ ~(IsHandle(cmp.left) /\ IsHandle(cmp.right))) =>
           cmp.result = "False"

\* Two handles of one identity have been added to the set, and the latest
\* == was on a handle and the tuple that is its identity.
ProcIdentityWitness ==
    /\ Compared
    /\ cmp.right.type = "tuple"
    /\ cmp.right.v = ident(cmp.left)
    /\ Cardinality(added) = MaxHandles
    /\ Cardinality(pyset) = 1

(***************************************************************************)
(* isfile_strict and path_exists_strict, _common.py:140-167.               *)
(***************************************************************************)
\* errno.EPERM, errno.EACCES
EPERM == 1

EACCES == 13

\* The file types and the bits of st_mode that hold them (stat.S_IF*, in
\* units of 0o10000).
FileTypes == {"FIFO", "CHR", "DIR", "BLK", "REG", "LNK", "SOCK"}

TypeBits(ftype) ==
    CASE ftype = "FIFO" -> 1
      [] ftype = "CHR" -> 2
      [] ftype = "DIR" -> 4
      [] ftype = "BLK" -> 6
      [] ftype = "REG" -> 8
      [] ftype = "LNK" -> 10
      [] ftype = "SOCK" -> 12

\* st_mode of a file of a type with permission bits perm
st_mode(ftype, perm) == TypeBits(ftype) * 4096 + perm

\* stat.S_IFMT(mode): mode & 0o170000
S_IFMT(mode) == ((mode \div 4096) % 16) * 4096

\* stat.S_IFREG, 0o100000
S_IFREG == 32768

\* stat.S_ISREG(mode)
S_ISREG(mode) == S_IFMT(mode) = S_IFREG

\* What os.stat(path) may do: return a stat result, raise OSError with an
\* errno, or raise an exception that is not an OSError.
StatOutcomes ==
    {[does |-> "return", ftype |-> f, st_mode |-> st_mode(f, perm), errno |-> 0] :
        f \in FileTypes, perm \in 0..MaxPerm} \cup
    {[does |-> "OSError", ftype |-> "None", st_mode |-> 0, errno |-> e] :
        e \in 1..MaxErrno} \cup
    {[does |-> "ValueError", ftype |-> "None", st_mode |-> 0, errno |-> 0]}

\* lines 148, 163: err.errno in (errno.EPERM, errno.EACCES)
InStrictErrnos_eperm(e) == e = EPERM

InStrictErrnos(e) == e \in {EPERM, EACCES}

StrictFunctions == {"isfile_strict", "path_exists_strict"}

InitStrict ==
    /\ strict_fn = "None"
    /\ os_stat = NoOutcome
    /\ strict_out = NoOutcome
    /\ strict_pc = "new"
    /\ EnvOff
    /\ MemoOff
    /\ SockOff
    /\ PctOff
    /\ ErrOff
    /\ ProcOff

\* fn(path) is called on a path for which os.stat will do as outcome says.
StrictCall(fn, outcome) ==
    /\ strict_pc = "new"
    /\ strict_fn' = fn
    /\ os_stat' = outcome
    /\ strict_pc' = "try"
    /\ UNCHANGED strict_out
    /\ UNCHANGED <<envVars, memoVars, sockVars, pctVars, errVars, procVars>>

\* lines 145-146, 160-161: os.stat(path) returns
StrictStatReturns ==
    /\ strict_pc = "try"
    /\ os_stat.does = "return"
    /\ strict_pc' = "else"
    /\ UNCHANGED <<strict_fn, os_stat, strict_out>>
    /\ UNCHANGED <<envVars, memoVars, sockVars, pctVars, errVars, procVars>>

\* lines 147, 162: os.stat(path) raises OSError, which is caught
StrictStatOSError ==
    /\ strict_pc = "try"
    /\ os_stat.does = "OSError"
    /\ strict_pc' = "except"
    /\ UNCHANGED <<strict_fn, os_stat, strict_out>>
    /\ UNCHANGED <<envVars, memoVars, sockVars, pctVars, errVars, procVars>>

\* lines 145-147, 160-162: os.stat(path) raises something else, which no
\* except clause catches
StrictStatOtherError ==
    /\ strict_pc = "try"
    /\ os_stat.does \notin {"return", "OSError"}
    /\ strict_out' = [does |-> "raise", exception |-> os_stat.does,
                      errno |-> os_stat.errno, value |-> FALSE]
    /\ strict_pc' = "done"
    /\ UNCHANGED <<strict_fn, os_stat>>
    /\ UNCHANGED <<envVars, memoVars, sockVars, pctVars, errVars, procVars>>

\* lines 148-149, 163-164: raise
StrictReraise ==
    /\ strict_pc = "except"
    /\ InStrictErrnos(os_stat.errno)
    /\ strict_out' = [does |-> "raise", exception |-> "OSError",
                      errno |-> os_stat.errno, value |-> FALSE]
    /\ strict_pc' = "done"
    /\ UNCHANGED <<strict_fn, os_stat>>
    /\ UNCHANGED <<envVars, memoVars, sockVars, pctVars, errVars, procVars>>

\* lines 150, 165: return False
StrictReturnFalse ==
    /\ strict_pc = "except"
    /\ ~InStrictErrnos(os_stat.errno)
    /\ strict_out' = [does |-> "return", exception |-> "None", errno |-> 0,
                      value |-> FALSE]
    /\ strict_pc' = "done"
    /\ UNCHANGED <<strict_fn, os_stat>>
    /\ UNCHANGED <<envVars, memoVars, sockVars, pctVars, errVars, procVars>>

\* lines 151-152: return stat.S_ISREG(st.st_mode)
IsfileReturnIsReg ==
    /\ strict_pc = "else"
    /\ strict_fn = "isfile_strict"
    /\ strict_out' = [does |-> "return", exception |-> "None", errno |-> 0,
                      value |-> S_ISREG(os_stat.st_mode)]
    /\ strict_pc' = "done"
    /\ UNCHANGED <<strict_fn, os_stat>>
    /\ UNCHANGED <<envVars, memoVars, sockVars, pctVars, errVars, procVars>>

\* lines 166-167: return True
PathExistsReturnTrue ==
    /\ strict_pc = "else"
    /\ strict_fn = "path_exists_strict"
    /\ strict_out' = [does |-> "return", exception |-> "None", errno |-> 0,
                      value |-> TRUE]
    /\ strict_pc' = "done"
    /\ UNCHANGED <<strict_fn, os_stat>>
    /\ UNCHANGED <<envVars, memoVars, sockVars, pctVars, errVars, procVars>>

NextStrict ==
    \/ \E fn \in StrictFunctions, outcome \in StatOutcomes : StrictCall(fn, outcome)
    \/ StrictStatReturns
    \/ StrictStatOSError
    \/ StrictStatOtherError
    \/ StrictReraise
    \/ StrictReturnFalse
    \/ IsfileReturnIsReg
    \/ PathExistsReturnTrue

SpecStrict == InitStrict /\ [][NextStrict]_vars

(***************************************************************************)
(* Claims about isfile_strict and path_exists_strict.                      *)
(***************************************************************************)
\* C13: both functions raise the OSError of os.stat when its errno is EPERM
\* or EACCES and return False for an OSError with another errno; when
\* os.stat succeeds isfile_strict returns True exactly for a regular file
\* and path_exists_strict returns True.
StrictStatContract ==
    strict_pc = "done" =>
        /\ (os_stat.does = "OSError" /\ os_stat.errno \in {1, 13}) =>
               /\ strict_out.does = "raise"
               /\ strict_out.exception = "OSError"
               /\ strict_out.errno = os_stat.errno
        /\ (os_stat.does = "OSError" /\ os_stat.errno \notin {1, 13}) =>
               /\ strict_out.does = "return"
               /\ strict_out.value = FALSE
        /\ (os_stat.does = "return" /\ strict_fn = "isfile_strict") =>
               /\ strict_out.does = "return"
               /\ strict_out.value = (os_stat.ftype = "REG")
        /\ (os_stat.does = "return" /\ strict_fn = "path_exists_strict") =>
               /\ strict_out.does = "return"
               /\ strict_out.value = TRUE

\* isfile_strict has raised the OSError with errno EACCES.
StrictStatWitness ==
    /\ strict_pc = "done"
    /\ strict_fn = "isfile_strict"
    /\ os_stat.does = "OSError"
    /\ os_stat.errno = 13
    /\ strict_out.does = "raise"

(***************************************************************************)
(* Claims about the wrapper around a function that raises.                 *)
(***************************************************************************)
\* Thread t's latest call of the wrapper ran the wrapped function, which
\* raised.
Raised(t) == seen[t].op = "raised"

\* The latest invocation of the wrapped function for key k raised.
LastInvocationRaised(k) ==
    \E c \in calls :
        /\ c.key = k
        /\ c.nth \in raises
        /\ \A d \in calls : d.key = k => d.nth <= c.nth

\* C14: when the wrapped function raises, the call ends with the exception
\* and no return value, the cache holds nothing made by that invocation and
\* no entry for its key until the function has run again for it, and the
\* thread no longer owns the lock once the exception has left the with block;
\* so the next call to look that key up, from any thread, gets the lock,
\* misses and runs the function again.
MemoRaiseLeavesNoEntry ==
    /\ \A t \in Threads : (Raised(t) /\ pc[t] = "idle") => wret[t] = NoValue
    /\ \A k \in DOMAIN cache : cache[k].nth \notin raises
    /\ \A k \in AllKeys : LastInvocationRaised(k) => ~CacheHas(k)
    /\ \A t \in Threads :
           (Raised(t) /\ pc[t] \in {"raise", "idle"}) => t \notin lock.owner

\* A call of one thread raised and has ended; after it another thread called
\* the wrapper with the same signature, ran the function again and stored
\* what it returned.
MemoRaiseWitness ==
    \E t1, t2 \in Threads :
        /\ t1 # t2
        /\ Raised(t1) /\ pc[t1] = "idle"
        /\ key[t2] = key[t1]
        /\ Returned(t2) /\ seen[t2].miss
        /\ CacheHas(key[t2]) /\ cache[key[t2]] = wret[t2]
        /\ \E c, d \in InvocationsIn(key[t1], epoch) :
               c.nth \in raises /\ d.nth = wret[t2].nth /\ c.nth < d.nth

====
